---- MODULE Spec2Model ----
(***************************************************************************)
(* A state-machine model of src/index.js (koa CAS authentication           *)
(* middleware): the constructor and its module-level validation strategy,  *)
(* the request decision engine (_handle, _login, _handleTicket, _request), *)
(* logout, and the single-logout handler (handle_single_logout).           *)
(*                                                                         *)
(* JavaScript values are modelled as strings; Undefined and JsFalse stand  *)
(* for the values undefined and false.  The session store and the session  *)
(* object are external collaborators, modelled by their interface.         *)
(***************************************************************************)
EXTENDS Integers, Sequences, FiniteSets, TLC

\* ------------------------------------------------------------------ bounds
MaxInstances == 2
MaxSessions == 1
MaxTickets == 1
MaxUsers == 2
MaxPaths == 2

\* ------------------------------------------------------------ JS values
Undefined == "<undefined>"
JsFalse == "<false>"

\* JavaScript truthiness of a modelled value (if (x), x || y, x && y).
Truthy(v) == v \notin {Undefined, JsFalse, ""}

\* The property key a value is coerced to in obj[value].
ToPropertyKey(v) == IF v = JsFalse THEN "false" ELSE v

AUTH_TYPE == [BOUNCE |-> 0, BOUNCE_REDIRECT |-> 1, BLOCK |-> 2]

AuthTypes == {AUTH_TYPE.BOUNCE, AUTH_TYPE.BOUNCE_REDIRECT, AUTH_TYPE.BLOCK}

Versions == {"1.0", "2.0", "3.0", "saml1.1"}

Instances == 1..MaxInstances

Sessions == 1..MaxSessions

SessionKey(s) == "sess-" \o ToString(s)

Tickets == {"ST-" \o ToString(n) : n \in 1..MaxTickets}

Users == {"user" \o ToString(n) : n \in 1..MaxUsers}

Paths == {"/p" \o ToString(n) : n \in 1..MaxPaths}

\* Identities are non-empty strings: a server never answers a successful
\* validation with an empty user.
\* Attribute maps a server can return (named by their JSON text).
AttrMaps == {"{mail:a}"}

CasUrl == "https://sso/cas"

\* url.parse(CasUrl).pathname
CasPath == "/cas"

ServiceUrl == "https://app"

DevUser == "dev"

DevInfo == "{dev:1}"

InfoSlot == "cas_info"

LogoutRedirectUrl == "https://app/bye"

\* --------------------------------------------------------- constructor
\* An options object.  Flags are given as booleans (the constructor
\* normalises them with !!); the other options are strings or Undefined.
\* dev is <<is_dev_mode, dev_mode_user, dev_mode_info>>.
Options(version, renew, dev, session_info, destroy_session, logout_redirect_url, single_logout) ==
    [cas_url |-> CasUrl, service_url |-> ServiceUrl, cas_version |-> version,
     renew |-> renew, is_dev_mode |-> dev[1], dev_mode_user |-> dev[2],
     dev_mode_info |-> dev[3], session_name |-> Undefined,
     session_info |-> session_info, destroy_session |-> destroy_session,
     logout_redirect_url |-> logout_redirect_url, single_logout |-> single_logout]

NoDev == <<FALSE, Undefined, Undefined>>

DevModes == {NoDev, <<TRUE, Undefined, Undefined>>, <<TRUE, DevUser, DevInfo>>}

\* The options objects of the decision engine's specification: every
\* combination of version, dev mode, attributes slot and single logout, and
\* the renew flag (read by _login alone) for every version.
EngineOptions ==
    {Options(v, FALSE, d, si, FALSE, Undefined, slo) :
         v \in Versions, d \in DevModes, si \in {Undefined, InfoSlot}, slo \in BOOLEAN}
    \cup {Options(v, TRUE, NoDev, Undefined, FALSE, Undefined, FALSE) : v \in Versions}

\* The validation endpoint suffix the constructor installs for a version.
ValidateUriOf(version) ==
    CASE version = "1.0" -> "/validate"
      [] version = "2.0" -> "/serviceValidate"
      [] version = "3.0" -> "/p3/serviceValidate"
      [] version = "saml1.1" -> "/samlValidate"

\* The instance fields the constructor derives from an options object.
Constructor(options) ==
    LET version == IF options.cas_version # Undefined THEN options.cas_version ELSE "3.0"
    IN [constructed |-> TRUE,
        cas_version |-> version,
        cas_url |-> options.cas_url,
        cas_path |-> CasPath,
        service_url |-> options.service_url,
        renew |-> options.renew,
        is_dev_mode |-> options.is_dev_mode,
        dev_mode_user |-> IF options.dev_mode_user # Undefined THEN options.dev_mode_user ELSE "",
        dev_mode_info |-> IF options.dev_mode_info # Undefined THEN options.dev_mode_info ELSE "{}",
        session_name |-> IF options.session_name # Undefined THEN options.session_name ELSE "cas_user",
        session_info |-> IF version \in {"2.0", "3.0", "saml1.1"} /\ options.session_info # Undefined
                         THEN options.session_info ELSE JsFalse,
        destroy_session |-> options.destroy_session,
        logout_redirect_url |-> options.logout_redirect_url,
        single_logout |-> options.single_logout]

NotConstructed ==
    [constructed |-> FALSE, cas_version |-> Undefined, cas_url |-> Undefined,
     cas_path |-> Undefined, service_url |-> Undefined, renew |-> FALSE,
     is_dev_mode |-> FALSE, dev_mode_user |-> Undefined, dev_mode_info |-> Undefined,
     session_name |-> Undefined, session_info |-> Undefined, destroy_session |-> FALSE,
     logout_redirect_url |-> Undefined, single_logout |-> FALSE]

\* ------------------------------------------------- response parsers
\* A response body, seen the two ways the parsers look at it: its lines
\* (body.split('\n')) and the result of xml2js parseString on it (err set when
\* it is not well-formed XML; otherwise the normalised, prefix-stripped tree:
\* its root, the authenticationfailure code, the authenticationsuccess user
\* and attributes, the SAML status code split at ':', the SAML subject and
\* attributes; Undefined where the element is missing).
MkBody(lines, err, root, failure, success, user, attributes, status) ==
    [lines |-> lines, err |-> err, root |-> root, failure |-> failure,
     success |-> success, user |-> user, attributes |-> attributes, status |-> status]

TextBody(lines) ==
    MkBody(lines, TRUE, Undefined, Undefined, FALSE, Undefined, Undefined, <<>>)

CasXmlBody(failure, success, user, attributes) ==
    MkBody(<<"<cas:serviceResponse>">>, FALSE, "serviceresponse", failure, success,
           user, attributes, <<>>)

SamlBody(status, user, attributes) ==
    MkBody(<<"<SOAP-ENV:Envelope>">>, FALSE, "envelope", Undefined, FALSE,
           user, attributes, status)

Bodies ==
    {TextBody(<<"yes", u>>) : u \in Users}
    \cup {TextBody(<<"yes">>), TextBody(<<"no">>), TextBody(<<"oops">>)}
    \cup {CasXmlBody(Undefined, TRUE, u, a) : u \in Users, a \in AttrMaps \cup {Undefined}}
    \cup {CasXmlBody("INVALID_TICKET", FALSE, Undefined, Undefined),
          CasXmlBody(Undefined, FALSE, Undefined, Undefined)}
    \cup {SamlBody(<<"samlp", "Success">>, u, a) : u \in Users, a \in AttrMaps \cup {"{}"}}
    \cup {SamlBody(<<"samlp", "Requester">>, Undefined, Undefined),
          SamlBody(<<"samlp", "Success">>, Undefined, Undefined)}
    \cup {MkBody(<<"<html>">>, FALSE, "html", Undefined, FALSE, Undefined, Undefined, <<>>)}

\* What a parser hands to its callback: callback(err) or
\* callback(null, user, attributes).
CallbackErr(msg) == [err |-> msg, user |-> Undefined, attributes |-> Undefined]

CallbackOk(user, attributes) == [err |-> Undefined, user |-> user, attributes |-> attributes]

ValidateV1(body) ==
    IF body.lines[1] = "yes" /\ Len(body.lines) >= 2
    THEN CallbackOk(body.lines[2], Undefined)
    ELSE IF body.lines[1] = "no"
    THEN CallbackErr("CAS authentication failed.")
    ELSE CallbackErr("Response from CAS server was bad.")

ValidateV2(body) ==
    IF body.err
    THEN CallbackErr("Response from CAS server was bad.")
    ELSE IF body.root # "serviceresponse"
    THEN CallbackErr("CAS authentication failed.")
    ELSE IF Truthy(body.failure)
    THEN CallbackErr("CAS authentication failed (" \o body.failure \o ").")
    ELSE IF body.success
    THEN CallbackOk(body.user, body.attributes)
    ELSE CallbackErr("CAS authentication failed.")

ValidateSaml(body) ==
    IF body.err
    THEN CallbackErr("Response from CAS server was bad.")
    ELSE IF body.root # "envelope"
    THEN CallbackErr("CAS authentication failed.")
    ELSE LET success == IF Len(body.status) >= 2 THEN body.status[2] ELSE "undefined"
         IN IF success # "Success"
            THEN CallbackErr("CAS authentication failed (" \o success \o ").")
            ELSE IF body.attributes = Undefined
            THEN CallbackErr("CAS authentication failed.")
            ELSE CallbackOk(body.user, body.attributes)

\* The parser the module-level variable _validate holds, named by the
\* version whose constructor branch assigned it.
Validate(fn, body) ==
    CASE fn = "1.0" -> ValidateV1(body)
      [] fn \in {"2.0", "3.0"} -> ValidateV2(body)
      [] fn = "saml1.1" -> ValidateSaml(body)

\* ---------------------------------------------------------------- state
VARIABLES
    validateUri,  \* the module-level variable _validateUri
    validateFn,   \* the module-level variable _validate (named by version)
    cas,          \* the Cas instances: their fields after construction
    store,        \* the external session store: key -> entry
    ctx,          \* per session: the request in flight, or the last one handled
    slo           \* the single-logout notification in flight, or the last one

vars == <<validateUri, validateFn, cas, store, ctx, slo>>

\* ------------------------------------------- session store and sessions
SlotNames == {"cas_user", InfoSlot, "false", "cas_return_to"}

EmptySession == [k \in SlotNames |-> Undefined]

StoreKeys == {SessionKey(s) : s \in Sessions} \cup Tickets

NoEntry == [kind |-> "none", slots |-> EmptySession, key |-> Undefined]

SessionEntry(slots) == [kind |-> "session", slots |-> slots, key |-> Undefined]

\* The value _handleTicket stores under the ticket: { key }.
BindingEntry(key) == [kind |-> "binding", slots |-> EmptySession, key |-> key]

\* store.set(key, value): the entry is replaced.
StoreSet(st, key, entry) == [st EXCEPT ![key] = entry]

\* store.destroy(key): the entry is removed.
StoreDestroy(st, key) == [st EXCEPT ![key] = NoEntry]

\* ctx.session at the start of a request: the stored session of the request's
\* cookie, or a new empty session.
LoadSession(st, s) ==
    IF st[SessionKey(s)].kind = "session" THEN st[SessionKey(s)].slots ELSE EmptySession

\* The session middleware's commit at the end of a request: the session is
\* written back under its key when the request changed it.
Commit(st, s, c) ==
    IF c.destroyed THEN StoreDestroy(st, SessionKey(s))
    ELSE IF c.session = c.session0 THEN st
    ELSE StoreSet(st, SessionKey(s), SessionEntry(c.session))

\* ------------------------------------------------------------- requests
RequestSpace ==
    [pathname : Paths, ticket : Tickets \cup {Undefined},
     returnTo : {Undefined, "/r"}, redirectTo : {Undefined, "/x"}]

\* The query string of the request's URL.
Search(req) ==
    LET t == IF req.ticket # Undefined THEN "ticket=" \o req.ticket \o ";" ELSE ""
        r == IF req.returnTo # Undefined THEN "returnTo=" \o req.returnTo \o ";" ELSE ""
        d == IF req.redirectTo # Undefined THEN "redirectTo=" \o req.redirectTo \o ";" ELSE ""
    IN IF t \o r \o d = "" THEN "" ELSE "?" \o t \o r \o d

\* url.parse(ctx.url).path: the pathname followed by the query string.
UrlPath(req) == req.pathname \o Search(req)

\* url.parse(ctx.url).pathname
UrlPathname(req) == req.pathname

\* url.format({pathname, query}) for a query of one or two parameters.
UrlFormat(pathname, k1, v1, k2, v2) ==
    pathname \o "?" \o k1 \o "=" \o v1 \o (IF k2 = "" THEN "" ELSE "&" \o k2 \o "=" \o v2)

NoResult == [err |-> "<none>", user |-> Undefined, attributes |-> Undefined]

\* The context of a request entering a handler: koa's defaults (status 404,
\* no redirect), the request's inputs and its session.
NewCtx(op, i, authType, req, session) ==
    [pc |-> "run", op |-> op, inst |-> i, authType |-> authType, req |-> req,
     session |-> session, session0 |-> session, destroyed |-> FALSE,
     status |-> 404, redirected |-> FALSE, location |-> Undefined,
     nextCalled |-> FALSE, fault |-> FALSE,
     sent |-> 0, reqMethod |-> Undefined, reqPath |-> Undefined, body |-> "none",
     parsed |-> 0, parsedBy |-> Undefined, result |-> NoResult,
     setCalls |-> 0, setOutcome |-> "none", reconciled |-> FALSE]

IdleCtx ==
    [NewCtx("none", 0, -1,
            [pathname |-> "", ticket |-> Undefined, returnTo |-> Undefined,
             redirectTo |-> Undefined], EmptySession) EXCEPT !.pc = "idle"]

\* ctx.redirect(url): status 302 and the Location header.
Redirect(c, url) == [c EXCEPT !.status = 302, !.redirected = TRUE, !.location = url]

\* ctx.status = code
SetStatus(c, code) == [c EXCEPT !.status = code]

\* await next()
CallNext(c) == [c EXCEPT !.nextCalled = TRUE]

\* ctx.session[key] = value
SessionWrite(c, key, value) == [c EXCEPT !.session[ToPropertyKey(key)] = value]

\* The handler has returned (or thrown): the request is over.
Done(c) == [c EXCEPT !.pc = "done"]

\* delete ctx.session[key]
SessionDelete(c, key) == [c EXCEPT !.session[ToPropertyKey(key)] = Undefined]

\* ctx.session.destroy(): the whole session is destroyed.
SessionDestroy(c) == [c EXCEPT !.session = EmptySession, !.destroyed = TRUE]

\* ------------------------------------------------- the decision engine
\* _login with the precedence of the return URL swapped: the request's path
\* wins over an explicit returnTo.
LoginPathFirst(self, c) ==
    LET saved == SessionWrite(c, "cas_return_to",
                              IF Truthy(UrlPath(c.req)) THEN UrlPath(c.req)
                              ELSE c.req.returnTo)
        service == self.service_url \o UrlPathname(c.req)
    IN Redirect(saved,
                self.cas_url \o
                (IF self.renew
                 THEN UrlFormat("/login", "service", service, "renew", "true")
                 ELSE UrlFormat("/login", "service", service, "", "")))

\* _login: save the return URL, redirect to the login endpoint.
Login(self, c) ==
    LET saved == SessionWrite(c, "cas_return_to",
                              IF Truthy(c.req.returnTo) THEN c.req.returnTo
                              ELSE UrlPath(c.req))
        service == self.service_url \o UrlPathname(c.req)
    IN Redirect(saved,
                self.cas_url \o
                (IF self.renew
                 THEN UrlFormat("/login", "service", service, "renew", "true")
                 ELSE UrlFormat("/login", "service", service, "", "")))

\* _request: one request is written to the authentication server; the
\* handler is suspended until the response ends or the transport fails.
Request(c, method, path) ==
    [c EXCEPT !.sent = @ + 1, !.reqMethod = method, !.reqPath = path,
              !.pc = "awaitResponse"]

\* _handleTicket up to its first suspension: build the validation request
\* and send it.  For saml1.1 building the SOAP body evaluates req.host, and
\* req is not a variable in scope: a ReferenceError is thrown outside the
\* try block and leaves the handler.
HandleTicket(self, uri, c) ==
    IF self.cas_version \in {"1.0", "2.0", "3.0"}
    THEN Request(c, "GET",
                 UrlFormat(self.cas_path \o uri,
                           "service", self.service_url \o UrlPathname(c.req),
                           "ticket", c.req.ticket))
    ELSE Done([c EXCEPT !.fault = TRUE])

\* _handle with the dev-mode branch tested before the identity.
HandleRequestDevFirst(self, uri, c) ==
    IF self.is_dev_mode
    THEN Done(CallNext(SessionWrite(SessionWrite(c, self.session_name, self.dev_mode_user),
                                    self.session_info, self.dev_mode_info)))
    ELSE IF Truthy(c.session[self.session_name])
    THEN IF c.authType = AUTH_TYPE.BOUNCE_REDIRECT
         THEN Done(Redirect(c, c.req.redirectTo))
         ELSE Done(CallNext(c))
    ELSE IF c.authType = AUTH_TYPE.BLOCK
    THEN Done(SetStatus(c, 401))
    ELSE IF Truthy(c.req.ticket)
    THEN HandleTicket(self, uri, c)
    ELSE Done(Login(self, c))

\* _handle with the ticket branch tested before the block branch.
HandleRequestTicketBeforeBlock(self, uri, c) ==
    IF Truthy(c.session[self.session_name])
    THEN IF c.authType = AUTH_TYPE.BOUNCE_REDIRECT
         THEN Done(Redirect(c, c.req.redirectTo))
         ELSE Done(CallNext(c))
    ELSE IF self.is_dev_mode
    THEN Done(CallNext(SessionWrite(SessionWrite(c, self.session_name, self.dev_mode_user),
                                    self.session_info, self.dev_mode_info)))
    ELSE IF Truthy(c.req.ticket)
    THEN HandleTicket(self, uri, c)
    ELSE IF c.authType = AUTH_TYPE.BLOCK
    THEN Done(SetStatus(c, 401))
    ELSE Done(Login(self, c))

\* _handle: the decision for one request, up to the point where it ends or
\* is suspended at the validation round trip.
HandleRequest(self, uri, c) ==
    IF Truthy(c.session[self.session_name])
    THEN IF c.authType = AUTH_TYPE.BOUNCE_REDIRECT
         THEN Done(Redirect(c, c.req.redirectTo))
         ELSE Done(CallNext(c))
    ELSE IF self.is_dev_mode
    THEN Done(CallNext(SessionWrite(SessionWrite(c, self.session_name, self.dev_mode_user),
                                    self.session_info, self.dev_mode_info)))
    ELSE IF c.authType = AUTH_TYPE.BLOCK
    THEN Done(SetStatus(c, 401))
    ELSE IF Truthy(c.req.ticket)
    THEN HandleTicket(self, uri, c)
    ELSE Done(Login(self, c))

\* CommitIdentity with the attributes stored as returned, without the
\* "|| {}" default.
CommitIdentityNoDefault(self, c) ==
    LET c1 == SessionWrite(c, self.session_name, c.result.user)
        c2 == IF Truthy(self.session_info)
              THEN SessionWrite(c1, self.session_info, c.result.attributes)
              ELSE c1
    IN Redirect(c2, c2.session["cas_return_to"])

\* CommitIdentity redirecting to the URL of the ticket request instead of
\* the saved return URL.
CommitIdentityToRequestPath(self, c) ==
    LET c1 == SessionWrite(c, self.session_name, c.result.user)
        c2 == IF Truthy(self.session_info)
              THEN SessionWrite(c1, self.session_info,
                                IF Truthy(c.result.attributes) THEN c.result.attributes
                                ELSE "{}")
              ELSE c1
    IN Redirect(c2, UrlPath(c.req))

\* _handleTicket after a successful store write (or without single logout):
\* the identity and the attributes go into the session, the client is
\* redirected to the saved return URL.
CommitIdentity(self, c) ==
    LET c1 == SessionWrite(c, self.session_name, c.result.user)
        c2 == IF Truthy(self.session_info)
              THEN SessionWrite(c1, self.session_info,
                                IF Truthy(c.result.attributes) THEN c.result.attributes
                                ELSE "{}")
              ELSE c1
    IN Redirect(c2, c2.session["cas_return_to"])

\* _validate(body, callback): the parser held by _validate has run on the
\* body and called back with r.
Parsed(c, fn, r) == [c EXCEPT !.parsed = @ + 1, !.parsedBy = fn, !.result = r]

\* The callback _handleTicket gives to _validate, up to its suspension at
\* the store write.
OnValidated(self, c) ==
    IF c.result.err # Undefined
    THEN Done(SetStatus(c, 401))
    ELSE IF self.single_logout
    THEN [c EXCEPT !.pc = "awaitStoreSet", !.setCalls = @ + 1]
    ELSE Done(CommitIdentity(self, c))

\* AfterStoreSet committing the identity whatever the outcome of the write.
AfterStoreSetAnyway(self, c) == Done(CommitIdentity(self, c))

\* The continuation of the callback after await store.set(...): on success
\* the identity is committed, on failure the error is logged and swallowed.
AfterStoreSet(self, c) ==
    IF c.setOutcome = "ok" THEN Done(CommitIdentity(self, c)) ELSE Done(c)

\* The catch of _handleTicket around the round trip: a transport error.
OnRequestError(c) == Done(SetStatus(c, 401))

\* logout destroying the whole session whatever the destroy_session flag.
LogoutRequestDestroyAlways(self, c) ==
    LET query == IF Truthy(self.logout_redirect_url)
                 THEN "service=" \o self.logout_redirect_url ELSE ""
    IN Done(Redirect(SessionDestroy(c), self.cas_url \o "/logout?" \o query))

\* logout: drop the session or its two slots, redirect to the logout endpoint.
LogoutRequest(self, c) ==
    LET c1 == IF self.destroy_session
              THEN SessionDestroy(c)
              ELSE LET d == SessionDelete(c, self.session_name)
                   IN IF Truthy(self.session_info)
                      THEN SessionDelete(d, self.session_info) ELSE d
        query == IF Truthy(self.logout_redirect_url)
                 THEN "service=" \o self.logout_redirect_url ELSE ""
    IN Done(Redirect(c1, self.cas_url \o "/logout?" \o query))

\* ------------------------------------------------------ request actions
Ready(s) == ctx[s].pc \in {"idle", "done"}

\* A request enters bounce, bounce_redirect or block of instance i.
Handle(i, s, authType, req) ==
    /\ cas[i].constructed
    /\ Ready(s)
    /\ LET c == HandleRequest(cas[i], validateUri,
                              NewCtx("handle", i, authType, req, LoadSession(store, s)))
       IN /\ ctx' = [ctx EXCEPT ![s] = c]
          /\ store' = IF c.pc = "done" THEN Commit(store, s, c) ELSE store
    /\ UNCHANGED <<validateUri, validateFn, cas, slo>>

\* response.on('data'): a chunk is appended to the body, which is not yet
\* complete.
RecvData(s) ==
    /\ ctx[s].pc = "awaitResponse"
    /\ ctx[s].body = "none"
    /\ ctx' = [ctx EXCEPT ![s].body = "partial"]
    /\ UNCHANGED <<validateUri, validateFn, cas, store, slo>>

\* response.on('end'): the body is complete, _validate parses it and calls
\* back.
RecvEnd(s, body) ==
    /\ ctx[s].pc = "awaitResponse"
    /\ LET r == Validate(validateFn, body)
           c == OnValidated(cas[ctx[s].inst],
                            Parsed([ctx[s] EXCEPT !.body = "complete"], validateFn, r))
       IN /\ ctx' = [ctx EXCEPT ![s] = c]
          /\ store' = IF c.pc = "done" THEN Commit(store, s, c) ELSE store
    /\ UNCHANGED <<validateUri, validateFn, cas, slo>>

\* request.on('error') / response.on('error'): the round trip failed.
RecvError(s) ==
    /\ ctx[s].pc = "awaitResponse"
    /\ LET c == OnRequestError(ctx[s])
       IN /\ ctx' = [ctx EXCEPT ![s] = c]
          /\ store' = Commit(store, s, c)
    /\ UNCHANGED <<validateUri, validateFn, cas, slo>>

\* store.set(ticket, { key }, ONE_DAY, ...) completes or fails.
BindingSet(s, ok) ==
    /\ ctx[s].pc = "awaitStoreSet"
    /\ store' = IF ok
                THEN StoreSet(store, ctx[s].req.ticket, BindingEntry(SessionKey(s)))
                ELSE store
    /\ ctx' = [ctx EXCEPT ![s].pc = "storeSetDone",
                          ![s].setOutcome = IF ok THEN "ok" ELSE "failed"]
    /\ UNCHANGED <<validateUri, validateFn, cas, slo>>

\* The callback resumes after the store write.
BindingSetResume(s) ==
    /\ ctx[s].pc = "storeSetDone"
    /\ LET c == AfterStoreSet(cas[ctx[s].inst], ctx[s])
       IN /\ ctx' = [ctx EXCEPT ![s] = c]
          /\ store' = Commit(store, s, c)
    /\ UNCHANGED <<validateUri, validateFn, cas, slo>>

LogoutReq ==
    [pathname |-> "/logout", ticket |-> Undefined, returnTo |-> Undefined,
     redirectTo |-> Undefined]

\* A request enters logout of instance i.
Logout(i, s) ==
    /\ cas[i].constructed
    /\ Ready(s)
    /\ LET c == LogoutRequest(cas[i], NewCtx("logout", i, -1, LogoutReq,
                                             LoadSession(store, s)))
       IN /\ ctx' = [ctx EXCEPT ![s] = c]
          /\ store' = Commit(store, s, c)
    /\ UNCHANGED <<validateUri, validateFn, cas, slo>>

\* A store entry reaches its time to live (ONE_DAY for a binding).
Expire(k) ==
    /\ store[k].kind # "none"
    /\ store' = StoreDestroy(store, k)
    /\ UNCHANGED <<validateUri, validateFn, cas, ctx, slo>>

\* new Cas(options): the instance's fields, and the module-level validation
\* strategy of its version.
Construct(i, options) ==
    /\ ~cas[i].constructed
    /\ LET self == Constructor(options)
       IN /\ cas' = [cas EXCEPT ![i] = self]
          /\ validateUri' = ValidateUriOf(self.cas_version)
          /\ validateFn' = self.cas_version
    /\ UNCHANGED <<store, ctx, slo>>

\* ----------------------------------------------------- single logout
\* The logoutRequest payloads: err is xml2js's parse error, logoutrequest
\* whether the parsed document has that root, sessionindex its SessionIndex.
Payload(err, logoutrequest, sessionindex) ==
    [err |-> err, logoutrequest |-> logoutrequest, sessionindex |-> sessionindex]

Payloads ==
    {Payload(FALSE, TRUE, t) : t \in Tickets \cup {Undefined}}
    \cup {Payload(TRUE, FALSE, Undefined), Payload(FALSE, FALSE, Undefined)}

IdleSlo ==
    [pc |-> "idle", inst |-> 0, st |-> Undefined, key |-> Undefined,
     status |-> 404, body |-> Undefined, found |-> FALSE,
     parses |-> 0, gets |-> 0, attempted |-> <<>>, failed |-> {}, destroyed |-> {}]

\* store.get(key): the entry, or nothing.
StoreGet(st, key) == IF key \in DOMAIN st THEN st[key] ELSE NoEntry

\* store.destroy(key) for any key value.
StoreDestroyAny(st, key) == IF key \in DOMAIN st THEN StoreDestroy(st, key) ELSE st

\* ctx.body = 'ok' at the end of handle_single_logout (the status stays as
\* set, or becomes 200).
Ack(r) ==
    [r EXCEPT !.pc = "done", !.body = "ok", !.status = IF @ = 404 THEN 200 ELSE @]

\* handle_single_logout without the test of the single_logout flag.
SingleLogoutAlways(self, i, payload) ==
    IF payload.err \/ ~payload.logoutrequest
    THEN [IdleSlo EXCEPT !.inst = i, !.pc = "hung", !.parses = 1]
    ELSE [IdleSlo EXCEPT !.inst = i, !.pc = "get", !.st = payload.sessionindex,
                         !.parses = 1, !.gets = 1]

\* handle_single_logout up to its first suspension.  A parse error, or a
\* document without a logoutrequest root, throws inside the async parse
\* callback: the promise the handler awaits is never settled.
SingleLogout(self, i, payload) ==
    IF ~self.single_logout
    THEN Ack([IdleSlo EXCEPT !.inst = i])
    ELSE IF payload.err \/ ~payload.logoutrequest
    THEN [IdleSlo EXCEPT !.inst = i, !.pc = "hung", !.parses = 1]
    ELSE [IdleSlo EXCEPT !.inst = i, !.pc = "get", !.st = payload.sessionindex,
                         !.parses = 1, !.gets = 1]

\* A failed store operation with the status left as it was.
DowngradeSilent(r, op) == Ack([r EXCEPT !.failed = @ \cup {op}])

\* A store operation of the reconciliation failed: status 202, resolve().
Downgrade(r, op) == Ack([r EXCEPT !.status = 202, !.failed = @ \cup {op}])

\* AfterGet acknowledging at once when no binding is found, without the
\* destroy of the entry keyed by the ticket.
AfterGetNoFallback(r, ok, entry) ==
    IF ~ok THEN Downgrade(r, "get")
    ELSE IF entry.kind # "none" /\ Truthy(entry.key)
    THEN [r EXCEPT !.pc = "destroyKey", !.key = entry.key, !.found = TRUE,
                   !.attempted = Append(@, entry.key)]
    ELSE Ack(r)

\* After await sessionStore.get(st, ONE_DAY, {}): with a binding,
\* destroy(sessionResult.key) is called; without, destroy(st).
AfterGet(r, ok, entry) ==
    IF ~ok THEN Downgrade(r, "get")
    ELSE IF entry.kind # "none" /\ Truthy(entry.key)
    THEN [r EXCEPT !.pc = "destroyKey", !.key = entry.key, !.found = TRUE,
                   !.attempted = Append(@, entry.key)]
    ELSE [r EXCEPT !.pc = "destroyFallback", !.attempted = Append(@, r.st)]

\* AfterDestroyKey acknowledging at once, without destroying the binding.
AfterDestroyKeyOnly(r, ok) ==
    IF ok THEN Ack([r EXCEPT !.destroyed = @ \cup {r.key}])
    ELSE Downgrade(r, "destroyKey")

\* After await sessionStore.destroy(sessionResult.key).
AfterDestroyKey(r, ok) ==
    IF ok THEN [r EXCEPT !.pc = "destroySt", !.destroyed = @ \cup {r.key},
                         !.attempted = Append(@, r.st)]
    ELSE Downgrade(r, "destroyKey")

\* After await sessionStore.destroy(st), in either branch.
AfterDestroySt(r, ok) ==
    IF ok THEN Ack([r EXCEPT !.destroyed = @ \cup {r.st}])
    ELSE Downgrade(r, "destroySt")

SloNotify(i, payload) ==
    /\ cas[i].constructed
    /\ slo.pc \in {"idle", "done", "hung"}
    /\ slo' = SingleLogout(cas[i], i, payload)
    /\ UNCHANGED <<validateUri, validateFn, cas, store, ctx>>

SloGet(ok) ==
    /\ slo.pc = "get"
    /\ slo' = AfterGet(slo, ok, StoreGet(store, slo.st))
    /\ UNCHANGED <<validateUri, validateFn, cas, store, ctx>>

SloDestroyKey(ok) ==
    /\ slo.pc = "destroyKey"
    /\ slo' = AfterDestroyKey(slo, ok)
    /\ store' = IF ok THEN StoreDestroyAny(store, slo.key) ELSE store
    /\ UNCHANGED <<validateUri, validateFn, cas, ctx>>

\* The request of session s is suspended between its binding write and its
\* identity write, and the notification in flight found its binding.
Overtaken(s) ==
    /\ ctx[s].pc = "storeSetDone"
    /\ ctx[s].setOutcome = "ok"
    /\ slo.pc = "destroySt"
    /\ slo.st = ctx[s].req.ticket
    /\ slo.key = SessionKey(s)

\* The last destroy of a reconciliation completes or fails.  (History: a
\* request overtaken by a fully successful reconciliation is marked.)
SloDestroySt(ok) ==
    /\ slo.pc \in {"destroySt", "destroyFallback"}
    /\ slo' = AfterDestroySt(slo, ok)
    /\ store' = IF ok THEN StoreDestroyAny(store, slo.st) ELSE store
    /\ ctx' = [s \in Sessions |->
                  IF ok /\ Overtaken(s) THEN [ctx[s] EXCEPT !.reconciled = TRUE]
                  ELSE ctx[s]]
    /\ UNCHANGED <<validateUri, validateFn, cas>>

\* --------------------------------------------------------- specifications
InitModule ==
    /\ validateUri = Undefined
    /\ validateFn = Undefined
    /\ cas = [i \in Instances |-> NotConstructed]
    /\ store = [k \in StoreKeys |-> NoEntry]
    /\ ctx = [s \in Sessions |-> IdleCtx]
    /\ slo = IdleSlo

\* The state after new Cas(options), for one instance.
Constructed(options) ==
    /\ validateUri = ValidateUriOf(Constructor(options).cas_version)
    /\ validateFn = Constructor(options).cas_version
    /\ cas = [i \in Instances |-> IF i = 1 THEN Constructor(options) ELSE NotConstructed]
    /\ store = [k \in StoreKeys |-> NoEntry]
    /\ ctx = [s \in Sessions |-> IdleCtx]
    /\ slo = IdleSlo

\* The decision engine: one instance, every request, every outcome of the
\* round trip and of the store write; store entries may vanish at any time.
Init == \E options \in EngineOptions : Constructed(options)

Next ==
    \/ \E i \in Instances, s \in Sessions, a \in AuthTypes, req \in RequestSpace :
           Handle(i, s, a, req)
    \/ \E s \in Sessions : RecvData(s)
    \/ \E s \in Sessions, body \in Bodies : RecvEnd(s, body)
    \/ \E s \in Sessions : RecvError(s)
    \/ \E s \in Sessions, ok \in BOOLEAN : BindingSet(s, ok)
    \/ \E s \in Sessions : BindingSetResume(s)
    \/ \E k \in StoreKeys : Expire(k)

Spec == Init /\ [][Next]_vars

\* Several instances of one module: constructions interleave with requests.
\* The requests are those that reach the validation (one path, no returnTo
\* or redirectTo).
SharedOptions ==
    {Options(v, FALSE, NoDev, Undefined, FALSE, Undefined, sl) :
         v \in Versions, sl \in BOOLEAN}

PlainRequests ==
    {req \in RequestSpace :
         /\ req.pathname = "/p1"
         /\ req.returnTo = Undefined
         /\ req.redirectTo = Undefined}

NextShared ==
    \/ \E i \in Instances, options \in SharedOptions : Construct(i, options)
    \/ \E i \in Instances, s \in Sessions, req \in PlainRequests :
           Handle(i, s, AUTH_TYPE.BOUNCE, req)
    \/ \E s \in Sessions : RecvData(s)
    \/ \E s \in Sessions, body \in Bodies : RecvEnd(s, body)
    \/ \E s \in Sessions : RecvError(s)
    \/ \E s \in Sessions, ok \in BOOLEAN : BindingSet(s, ok)
    \/ \E s \in Sessions : BindingSetResume(s)

SpecShared == InitModule /\ [][NextShared]_vars

\* The whole system: one instance, requests, logout and single-logout
\* notifications interleaved, every store operation failing or not.
SystemOptions ==
    {Options("3.0", FALSE, NoDev, info, ds, lr, sl) :
         info \in {Undefined, InfoSlot}, ds \in BOOLEAN,
         lr \in {Undefined, LogoutRedirectUrl}, sl \in BOOLEAN}

InitSystem == \E options \in SystemOptions : Constructed(options)

NextSystem ==
    \/ \E i \in Instances, s \in Sessions, a \in AuthTypes, req \in PlainRequests :
           Handle(i, s, a, req)
    \/ \E s \in Sessions : RecvData(s)
    \/ \E s \in Sessions, body \in Bodies : RecvEnd(s, body)
    \/ \E s \in Sessions : RecvError(s)
    \/ \E s \in Sessions, ok \in BOOLEAN : BindingSet(s, ok)
    \/ \E s \in Sessions : BindingSetResume(s)
    \/ \E i \in Instances, s \in Sessions : Logout(i, s)
    \/ \E k \in StoreKeys : Expire(k)
    \/ \E i \in Instances, payload \in Payloads : SloNotify(i, payload)
    \/ \E ok \in BOOLEAN : SloGet(ok)
    \/ \E ok \in BOOLEAN : SloDestroyKey(ok)
    \/ \E ok \in BOOLEAN : SloDestroySt(ok)

SpecSystem == InitSystem /\ [][NextSystem]_vars

\* The whole system where every store operation of a reconciliation
\* eventually completes or fails (the store's promises settle).
SpecSystemFair ==
    /\ SpecSystem
    /\ WF_vars(\E ok \in BOOLEAN : SloGet(ok))
    /\ WF_vars(\E ok \in BOOLEAN : SloDestroyKey(ok))
    /\ WF_vars(\E ok \in BOOLEAN : SloDestroySt(ok))

\* ------------------------------------------------------------ properties
\* The outcome of the validation of a request, as the spec names it.
Success(c) == c.parsed > 0 /\ c.result.err = Undefined

Failure(c) == c.parsed > 0 /\ c.result.err # Undefined

NetworkError(c) == c.pc = "done" /\ c.sent > 0 /\ c.parsed = 0

\* A request handled by bounce, bounce_redirect or block has ended.
Handled(c) == c.pc = "done" /\ c.op = "handle"

HadIdentity(c) == Truthy(c.session0["cas_user"])

\* The unauthenticated request with a ticket that bounce or bounce_redirect
\* hands to the ticket validation.
TicketCase(c) ==
    /\ Handled(c)
    /\ c.authType \in {AUTH_TYPE.BOUNCE, AUTH_TYPE.BOUNCE_REDIRECT}
    /\ ~HadIdentity(c)
    /\ ~cas[c.inst].is_dev_mode
    /\ Truthy(c.req.ticket)

\* What the claim promises after a Success.
IdentityCommitted(c) ==
    /\ c.session["cas_user"] = c.result.user
    /\ Truthy(cas[c.inst].session_info) =>
           c.session[cas[c.inst].session_info] =
               (IF c.result.attributes = Undefined THEN "{}" ELSE c.result.attributes)
    /\ c.redirected
    /\ c.location = c.session0["cas_return_to"]

Rejected(c) == c.status = 401 /\ c.session["cas_user"] = Undefined

C2_Authenticated ==
    \A s \in Sessions :
        (Handled(ctx[s]) /\ HadIdentity(ctx[s])) =>
            /\ ctx[s].authType = AUTH_TYPE.BOUNCE_REDIRECT =>
                   /\ ctx[s].redirected
                   /\ ctx[s].location = ctx[s].req.redirectTo
                   /\ ~ctx[s].nextCalled
            /\ ctx[s].authType # AUTH_TYPE.BOUNCE_REDIRECT =>
                   /\ ctx[s].nextCalled
                   /\ ~ctx[s].redirected
                   /\ ctx[s].status # 401
            /\ ctx[s].sent = 0
            /\ ctx[s].session = ctx[s].session0

C2_Witness ==
    \E s \in Sessions :
        /\ Handled(ctx[s])
        /\ HadIdentity(ctx[s])
        /\ cas[ctx[s].inst].is_dev_mode
        /\ Truthy(ctx[s].req.ticket)
        /\ ctx[s].authType = AUTH_TYPE.BOUNCE_REDIRECT
        /\ ctx[s].location = "/x"

\* C3: an unauthenticated request in mode Block, dev mode disabled, gets
\* status 401; next is not called, nothing is redirected, no validation
\* request is sent and the session is unchanged, ticket or not.
C3_Block ==
    \A s \in Sessions :
        (/\ Handled(ctx[s])
         /\ ~HadIdentity(ctx[s])
         /\ ~cas[ctx[s].inst].is_dev_mode
         /\ ctx[s].authType = AUTH_TYPE.BLOCK) =>
            /\ ctx[s].status = 401
            /\ ~ctx[s].nextCalled
            /\ ~ctx[s].redirected
            /\ ctx[s].sent = 0
            /\ ctx[s].session = ctx[s].session0

C3_Witness ==
    \E s \in Sessions :
        /\ Handled(ctx[s])
        /\ ~HadIdentity(ctx[s])
        /\ ~cas[ctx[s].inst].is_dev_mode
        /\ ctx[s].authType = AUTH_TYPE.BLOCK
        /\ Truthy(ctx[s].req.ticket)
        /\ ctx[s].status = 401

\* The session slots the dev-mode branch may write: the identity slot and
\* the attributes slot, when one is configured.
DevSlots(self) ==
    {self.session_name} \cup
    (IF Truthy(self.session_info) THEN {self.session_info} ELSE {})

\* C4 as stated: with dev mode enabled an unauthenticated request gets the
\* dev identity in the identity slot, the dev attributes in the configured
\* attributes slot and in no other slot, and proceeds to next with no
\* validation request, redirect or 401.
C4_Original ==
    \A s \in Sessions :
        (/\ Handled(ctx[s])
         /\ ~HadIdentity(ctx[s])
         /\ cas[ctx[s].inst].is_dev_mode) =>
            /\ ctx[s].session["cas_user"] = cas[ctx[s].inst].dev_mode_user
            /\ Truthy(cas[ctx[s].inst].session_info) =>
                   ctx[s].session[cas[ctx[s].inst].session_info] = cas[ctx[s].inst].dev_mode_info
            /\ \A k \in SlotNames \ DevSlots(cas[ctx[s].inst]) :
                   ctx[s].session[k] = ctx[s].session0[k]
            /\ ctx[s].nextCalled
            /\ ctx[s].sent = 0
            /\ ~ctx[s].redirected
            /\ ctx[s].status # 401

\* C5: an unauthenticated request without ticket in mode Bounce or
\* BounceRedirect, dev mode disabled, saves the explicit returnTo, or else
\* the request's path, as the return URL and is redirected to the login
\* endpoint with service = service URL + pathname, and renew=true exactly
\* when renew is configured; nothing is sent and the identity stays absent.
C5_Login ==
    \A s \in Sessions :
        (/\ Handled(ctx[s])
         /\ ~HadIdentity(ctx[s])
         /\ ~cas[ctx[s].inst].is_dev_mode
         /\ ~Truthy(ctx[s].req.ticket)
         /\ ctx[s].authType \in {AUTH_TYPE.BOUNCE, AUTH_TYPE.BOUNCE_REDIRECT}) =>
            /\ ctx[s].session["cas_return_to"] =
                   (IF ctx[s].req.returnTo # Undefined THEN ctx[s].req.returnTo
                    ELSE UrlPath(ctx[s].req))
            /\ ctx[s].redirected
            /\ ctx[s].location =
                   CasUrl \o "/login?service=" \o ServiceUrl \o ctx[s].req.pathname
                   \o (IF cas[ctx[s].inst].renew THEN "&renew=true" ELSE "")
            /\ ctx[s].sent = 0
            /\ ctx[s].session["cas_user"] = Undefined

C5_Witness ==
    \E s \in Sessions :
        /\ Handled(ctx[s])
        /\ ~HadIdentity(ctx[s])
        /\ ~cas[ctx[s].inst].is_dev_mode
        /\ ctx[s].authType = AUTH_TYPE.BOUNCE
        /\ cas[ctx[s].inst].renew
        /\ ctx[s].req.returnTo = "/r"
        /\ ctx[s].req.redirectTo = "/x"
        /\ ctx[s].session["cas_return_to"] = "/r"
        /\ ctx[s].redirected

\* The first request of the round trip: Bounce, no identity, no ticket, dev
\* mode disabled.
FirstRequest(c) ==
    /\ Handled(c)
    /\ c.authType = AUTH_TYPE.BOUNCE
    /\ ~HadIdentity(c)
    /\ ~cas[c.inst].is_dev_mode
    /\ ~Truthy(c.req.ticket)

\* The session as the last request left it is the one in the store.
Persisted(s) == store[SessionKey(s)] = SessionEntry(ctx[s].session)

\* This step starts a new request on session s.
Starts(s) == ctx[s].pc = "done" /\ ctx'[s] # ctx[s] /\ ctx'[s].op = "handle"

\* The round trip, step by step; bindingOk says whether the second request's
\* Success is taken only with the binding written (single logout enabled).
\* 1. The first request is redirected to the login endpoint and saves its
\*    return path.
\* 2. A request with a ticket that follows it on the same stored session
\*    starts from the saved return path, and keeps it while in flight.
\* 3. When that request's validation succeeds, the identity is set, the
\*    session is stored and the client is redirected to the return path the
\*    request started from.
\* 4. While the stored session is kept its identity is kept, and a Bounce
\*    request on a stored session with an identity proceeds to next with
\*    nothing sent to the authentication server.
RoundTrip(s, bindingOk) ==
    /\ FirstRequest(ctx[s]) =>
           /\ ctx[s].redirected
           /\ ctx[s].location =
                  CasUrl \o "/login?service=" \o ServiceUrl \o ctx[s].req.pathname
                  \o (IF cas[ctx[s].inst].renew THEN "&renew=true" ELSE "")
           /\ ctx[s].session["cas_return_to"] =
                  (IF ctx[s].req.returnTo # Undefined THEN ctx[s].req.returnTo
                   ELSE UrlPath(ctx[s].req))
    /\ (FirstRequest(ctx[s]) /\ Persisted(s) /\ Starts(s) /\ Truthy(ctx'[s].req.ticket)) =>
           ctx'[s].session0["cas_return_to"] = ctx[s].session["cas_return_to"]
    /\ ctx[s].pc \notin {"idle", "done"} =>
           ctx'[s].session0 = ctx[s].session0 /\ ctx'[s].req = ctx[s].req
    /\ (/\ ctx[s].pc # "done"
        /\ TicketCase(ctx'[s])
        /\ Success(ctx'[s])
        /\ bindingOk => (cas[ctx'[s].inst].single_logout => ctx'[s].setOutcome = "ok")) =>
           /\ ctx'[s].session["cas_user"] = ctx'[s].result.user
           /\ Truthy(ctx'[s].session["cas_user"])
           /\ ctx'[s].redirected
           /\ ctx'[s].location = ctx'[s].session0["cas_return_to"]
           /\ store'[SessionKey(s)] = SessionEntry(ctx'[s].session)
    /\ (store[SessionKey(s)].kind = "session" /\ store'[SessionKey(s)].kind = "session"
        /\ Truthy(store[SessionKey(s)].slots["cas_user"])) =>
           store'[SessionKey(s)].slots["cas_user"] = store[SessionKey(s)].slots["cas_user"]
    /\ (/\ Starts(s)
        /\ Truthy(LoadSession(store, s)["cas_user"])
        /\ ctx'[s].authType = AUTH_TYPE.BOUNCE) =>
           /\ ctx'[s].pc = "done"
           /\ ctx'[s].nextCalled
           /\ ctx'[s].sent = 0
           /\ ~ctx'[s].redirected
           /\ ctx'[s].status # 401

C7_Original ==
    \A s \in Sessions :
        (Handled(ctx[s]) /\ ~ctx[s].fault) =>
            /\ Cardinality({o \in {"next", "redirect", "401"} :
                   \/ o = "next" /\ ctx[s].nextCalled
                   \/ o = "redirect" /\ ctx[s].redirected
                   \/ o = "401" /\ ctx[s].status = 401}) = 1

\* _handleTicket has been entered for the request: a ticket-validation
\* attempt.
Attempt(c) ==
    /\ c.op = "handle"
    /\ ~HadIdentity(c)
    /\ ~cas[c.inst].is_dev_mode
    /\ c.authType # AUTH_TYPE.BLOCK
    /\ Truthy(c.req.ticket)

\* C9 as stated: a ticket-validation attempt sends exactly one request, and
\* the parser runs at most once, only after the whole body was received.
C9_Original ==
    \A s \in Sessions :
        Attempt(ctx[s]) =>
            /\ ctx[s].sent = 1
            /\ ctx[s].parsed <= 1
            /\ ctx[s].parsed = 1 => ctx[s].body = "complete"

\* The parser code a constructor branch installs (versions 2.0 and 3.0
\* install the same one).
ParserOf(version) == IF version \in {"2.0", "3.0"} THEN "2.0/3.0" ELSE version

\* C8 as stated: a ticket validation of an instance uses the validation
\* endpoint and the response parser of the version the instance was
\* constructed with, whatever else was constructed before or meanwhile.
C8_Original ==
    \A s \in Sessions :
        /\ ctx[s].sent > 0 =>
               ctx[s].reqPath =
                   cas[ctx[s].inst].cas_path \o ValidateUriOf(cas[ctx[s].inst].cas_version)
                   \o "?service=" \o ServiceUrl \o ctx[s].req.pathname
                   \o "&ticket=" \o ctx[s].req.ticket
        /\ ctx[s].parsed > 0 =>
               ParserOf(ctx[s].parsedBy) = ParserOf(cas[ctx[s].inst].cas_version)

\* C10: with single logout enabled, a notification whose binding is found
\* and whose store operations all succeed destroys the bound session entry,
\* then the binding entry, and is acknowledged with body 'ok' and a status
\* that is not 202.
C10_FullLogout ==
    [][/\ (slo.pc = "get" /\ slo' # slo /\ slo'.failed = {}
           /\ StoreGet(store, slo.st).kind = "binding") =>
              /\ cas[slo.inst].single_logout
              /\ slo'.pc = "destroyKey"
              /\ slo'.key = store[slo.st].key
       /\ (slo.pc = "destroyKey" /\ slo' # slo /\ slo'.failed = {}) =>
              /\ slo'.pc = "destroySt"
              /\ store'[slo.key] = NoEntry
       /\ (slo.pc = "destroySt" /\ slo' # slo /\ slo'.failed = {}) =>
              /\ slo'.pc = "done"
              /\ store'[slo.st] = NoEntry
              /\ slo'.destroyed = {slo.key, slo.st}
              /\ slo'.body = "ok"
              /\ slo'.status # 202
      ]_vars

C10_Witness ==
    /\ slo.pc = "done"
    /\ cas[slo.inst].single_logout
    /\ slo.found
    /\ slo.failed = {}
    /\ slo.st \in Tickets
    /\ slo.key \in {SessionKey(s) : s \in Sessions}
    /\ slo.destroyed = {slo.key, slo.st}
    /\ store[slo.key] = NoEntry
    /\ store[slo.st] = NoEntry
    /\ slo.body = "ok"
    /\ slo.status = 200

\* C11: with single logout enabled and no binding under the notified ticket,
\* the reconciler calls destroy on the entry keyed by the ticket itself and
\* on nothing else, no other store entry changes, and the notification is
\* acknowledged with 'ok': status 200 when the destroy succeeds, 202 when it
\* fails.
C11_NoBinding ==
    [][/\ (/\ slo.pc = "get" /\ slo' # slo /\ slo'.failed = {}
           /\ StoreGet(store, slo.st).kind # "binding") =>
              /\ cas[slo.inst].single_logout
              /\ slo'.pc = "destroyFallback"
              /\ ~slo'.found
              /\ slo'.attempted = <<slo.st>>
              /\ store' = store
       /\ (slo.pc = "destroyFallback" /\ slo' # slo) =>
              /\ slo'.pc = "done"
              /\ slo'.body = "ok"
              /\ slo'.attempted = <<slo.st>>
              /\ \A k \in StoreKeys \ {slo.st} : store'[k] = store[k]
              /\ slo'.failed = {} =>
                     /\ slo'.status = 200
                     /\ slo'.destroyed = {slo.st}
                     /\ slo.st \in StoreKeys => store'[slo.st] = NoEntry
              /\ slo'.failed # {} =>
                     /\ slo'.status = 202
                     /\ slo'.failed = {"destroySt"}
                     /\ store' = store
      ]_vars

\* A notification for a ticket without a binding has been acknowledged after
\* its fallback destroy failed.
C11_Witness ==
    /\ slo.pc = "done"
    /\ cas[slo.inst].single_logout
    /\ slo.st \in Tickets
    /\ ~slo.found
    /\ slo.attempted = <<slo.st>>
    /\ slo.failed = {"destroySt"}
    /\ slo.status = 202
    /\ slo.body = "ok"

\* C12: with single logout enabled, an acknowledged notification has status
\* 202 exactly when a store operation of its reconciliation failed and 200
\* otherwise; a failed destroy of the binding after a successful destroy of
\* the session gives 202 and leaves the store as the session destroy left it.
C12_PartialIffFailed ==
    [][(slo' # slo /\ slo'.pc = "done" /\ cas[slo'.inst].single_logout) =>
           /\ slo'.status = 202 <=> slo'.failed # {}
           /\ slo'.status # 202 => slo'.status = 200
           /\ slo'.failed \subseteq {"get", "destroyKey", "destroySt"}
           /\ (slo.pc = "destroySt" /\ slo'.failed # {}) =>
                  /\ slo'.status = 202
                  /\ slo.key \in slo'.destroyed
                  /\ store' = store
      ]_vars

\* The session was destroyed, the destroy of the binding failed, and the
\* session entry is still absent when the notification is acknowledged.
C12_Witness ==
    /\ slo.pc = "done"
    /\ cas[slo.inst].single_logout
    /\ slo.found
    /\ slo.key \in slo.destroyed
    /\ slo.failed = {"destroySt"}
    /\ slo.status = 202
    /\ store[slo.key] = NoEntry
    /\ store[slo.st].kind = "binding"

\* C13 as stated: every invocation of handle_single_logout eventually
\* completes with the acknowledgment body 'ok'.
C13_Original == (slo.pc \notin {"idle", "done"}) ~> (slo.pc = "done" /\ slo.body = "ok")

\* C14: with single logout disabled a notification is acknowledged with
\* 'ok' at once: the payload is not parsed, the store is neither read nor
\* asked to destroy anything, the status is not set by the handler, and the
\* store is left unchanged.
C14_DisabledNoOp ==
    [][(slo' # slo /\ ~cas[slo'.inst].single_logout) =>
           /\ slo'.pc = "done"
           /\ slo'.body = "ok"
           /\ slo'.parses = 0
           /\ slo'.gets = 0
           /\ slo'.attempted = <<>>
           /\ slo'.destroyed = {}
           /\ slo'.status = 200
           /\ store' = store
      ]_vars

\* A notification has been acknowledged by an instance without single
\* logout while a session entry is in the store.
C14_Witness ==
    /\ slo.pc = "done"
    /\ ~cas[slo.inst].single_logout
    /\ slo.body = "ok"
    /\ \E s \in Sessions : store[SessionKey(s)].kind = "session"

\* C15 as stated: a binding is in the store only if single logout is
\* enabled, and none names a session whose last request was a logout.
C15_Original ==
    \A t \in Tickets :
        store[t].kind = "binding" =>
            /\ \E i \in Instances : cas[i].constructed /\ cas[i].single_logout
            /\ \A s \in Sessions :
                   (ctx[s].op = "logout" /\ ctx[s].pc = "done") =>
                       store[t].key # SessionKey(s)

\* C16 as stated: for each protocol version, an unauthenticated request with
\* a ticket lets no fault escape the handler and sends a request to the
\* version's validation endpoint (GET for 1.0 to 3.0, POST for saml1.1).
C16_Original ==
    \A s \in Sessions :
        Attempt(ctx[s]) =>
            /\ ~ctx[s].fault
            /\ ctx[s].sent >= 1
            /\ ctx[s].reqMethod =
                   (IF cas[ctx[s].inst].cas_version = "saml1.1" THEN "POST" ELSE "GET")
            /\ ctx[s].reqPath =
                   UrlFormat(cas[ctx[s].inst].cas_path
                                 \o ValidateUriOf(cas[ctx[s].inst].cas_version),
                             "service", ServiceUrl \o ctx[s].req.pathname,
                             "ticket", ctx[s].req.ticket)

\* C17 as stated: when a binding is found the reconciler calls both destroys
\* in order, the bound session entry and then the binding entry, also when
\* the first one fails.
C17_Original ==
    (slo.pc = "done" /\ slo.found /\ "get" \notin slo.failed) =>
        slo.attempted = <<slo.key, slo.st>>

\* The slots logout removes when it does not destroy the whole session.
LogoutSlots(self) ==
    {"cas_user"} \cup (IF Truthy(self.session_info) THEN {self.session_info} ELSE {})

WroteIdentity(c) ==
    Truthy(c.session["cas_user"]) /\ c.session["cas_user"] # c.session0["cas_user"]

\* The dev-mode branch wrote the identity.
ByDevMode(c) ==
    /\ cas[c.inst].is_dev_mode
    /\ c.session["cas_user"] = cas[c.inst].dev_mode_user
    /\ c.sent = 0

\* A validation that returned Success wrote the identity; with single
\* logout, after the binding was stored.
ByValidation(c) ==
    /\ ~cas[c.inst].is_dev_mode
    /\ c.authType # AUTH_TYPE.BLOCK
    /\ Truthy(c.req.ticket)
    /\ Success(c)
    /\ c.session["cas_user"] = c.result.user
    /\ cas[c.inst].single_logout => (c.setCalls = 1 /\ c.setOutcome = "ok")

\* C19: the identity slot of a session becomes present only by the dev-mode
\* branch or by a validation that returned Success (with single logout, only
\* after the binding write succeeded); a stored session gains an identity
\* only from such a request; a failed binding write, a Failure, a network
\* error, a Block response and a login redirect write no identity.
C19_IdentityOrigin ==
    [][\A s \in Sessions :
        /\ WroteIdentity(ctx'[s]) =>
               /\ ctx'[s].op = "handle"
               /\ ctx'[s].pc = "done"
               /\ ByDevMode(ctx'[s]) \/ ByValidation(ctx'[s])
        /\ (/\ Truthy(LoadSession(store', s)["cas_user"])
            /\ LoadSession(store', s)["cas_user"] # LoadSession(store, s)["cas_user"]) =>
               /\ ctx'[s].pc = "done"
               /\ WroteIdentity(ctx'[s])
               /\ LoadSession(store', s)["cas_user"] = ctx'[s].session["cas_user"]
        /\ (/\ ctx'[s].pc = "done"
            /\ \/ ctx'[s].setOutcome = "failed"
               \/ Failure(ctx'[s])
               \/ NetworkError(ctx'[s])
               \/ ctx'[s].status = 401
               \/ ctx'[s].authType = AUTH_TYPE.BLOCK /\ ~cas[ctx'[s].inst].is_dev_mode
               \/ ctx'[s].session["cas_return_to"] # ctx'[s].session0["cas_return_to"]) =>
               ctx'[s].session["cas_user"] = ctx'[s].session0["cas_user"]
      ]_vars

\* A validation returned Success on an instance with single logout, the
\* binding write failed, and the request ended with the identity absent.
C19_Witness ==
    \E s \in Sessions :
        /\ Handled(ctx[s])
        /\ cas[ctx[s].inst].single_logout
        /\ Success(ctx[s])
        /\ ctx[s].setOutcome = "failed"
        /\ ctx[s].session["cas_user"] = Undefined
        /\ LoadSession(store, s)["cas_user"] = Undefined

\* C20 as stated: when a notification for ticket T was reconciled with full
\* success between the binding write and the identity write of the
\* validation of T, then once that validation has completed the session it
\* authenticated holds no identity and no binding for T is in the store.
C20_Original ==
    \A s \in Sessions :
        (ctx[s].pc = "done" /\ ctx[s].reconciled) =>
            /\ ~Truthy(ctx[s].session["cas_user"])
            /\ ~Truthy(LoadSession(store, s)["cas_user"])
            /\ store[ctx[s].req.ticket].kind # "binding"

====
